---- MODULE Spec2Model ----
(***************************************************************************)
(* Model of the SecureCall signaling relay (socket.io server) and of the   *)
(* browser client's call coordinator (App.jsx).                            *)
(*                                                                         *)
(* The relay's event handlers are synchronous JavaScript callbacks, so     *)
(* each one is one atomic step.  The client's handlers are async           *)
(* functions: every await is a point where another handler may run.        *)
(*                                                                         *)
(* App.jsx ships with a mock socket ("In production, replace with          *)
(* io(...)"); the call model wires the client's emit/on calls to the       *)
(* relay, as production does.  The mock's on() keeps one listener per      *)
(* event; on() of a socket.io connection adds a listener.  socket.io puts   *)
(* every socket, from its connection on, in a room named by its own id;    *)
(* a room name of an event is any string, the id of a socket included.     *)
(* The relay imports { Server } from 'socket.io' and pins no version:      *)
(* socket.to(room) leaves out the sender by its id (3.x) or every socket   *)
(* in the room named by the sender's id (4.x), as the build has it.        *)
(***************************************************************************)
EXTENDS Integers, Sequences, FiniteSets, TLC

\* ------------------------------------------------------------------ bounds

\* Connections (socket ids) known to the relay; in the call model each one is
\* the socket of one browser client.
Conn == {"c1", "c2", "c3"}

\* Bound: Join presses with a valid PIN, over all clients.
MaxJoins == 3

\* Bound: async functions of one client suspended at one time.
MaxTasks == 4

\* Bound: connections of one client that createPeerConnection replaced.
MaxReplaced == 1

\* Bound: ice-candidate messages on their way at one time.
MaxCandidates == 1

\* Length of the PIN accepted by handleJoin (pin.length !== 10).
PinLen == 10

PinA == "1111111111"
PinB == "2222222222"
PinShort == "111111111"
PinAlpha == "111111111a"
PinLong == "11111111111"
PinEmpty == ""

\* What a user may have in the PIN box when pressing Join.
PinInputs == {PinA, PinShort, PinAlpha, PinLong, PinEmpty}

Digits == {"0", "1", "2", "3", "4", "5", "6", "7", "8", "9"}

\* socket.id, and with it the name of the room socket.io keeps for the socket alone.
SocketId(s) == s

\* Room names used on the wire: the relay treats them as opaque keys.  A client may
\* name any string: a PIN, or the id of a socket, which the relay discloses as userId
\* and from.
Rooms == {PinA, SocketId("c3")}

\* Opaque negotiation payloads (session descriptions, candidates).
Payloads == {"sdp", "sdp-notracks"}

\* Bound: the payloads of the sockets that send what they like; the relay passes a
\* payload on without reading it.
RelayPayloads == {"sdp"}

\* Maximum 2 users per room for 1-to-1 calls (occupancy >= 2 is full).
MaxUsers == 2

\* JavaScript null / undefined for a room reference (falsy, like the empty string).
Null == ""

NoEvt == [type |-> "none"]

NegotiationTypes == {"offer", "answer", "ice-candidate"}

\* ------------------------------------------------------------------ state

VARIABLES
    \* ---- relay (server) ----
    rooms,        \* relay: Map room -> [users, occupancy]; DOMAIN = existing keys
    sioRooms,     \* relay: socket.io adapter, sioRooms[s] = rooms socket s is in
    currentRoom,  \* relay: socket.currentRoom (absent/null = Null)
    connected,    \* relay: socket s is connected
    exclusion,    \* relay: whom socket.to() leaves out in the socket.io of the build
    lastEvt,      \* the event the relay handled last
    emitted,      \* the messages the relay emitted while handling lastEvt: {<<to, msg>>}
    departed,     \* departed[s] = rooms s was removed from and has not re-joined
    refused,      \* refused[s] = room of s's latest join-room if it was answered roomFull
    raisedBy,     \* raisedBy[r] = the socket whose join raised r's occupancy to 2, while it is 2
    \* ---- transport between a client and the relay (FIFO each way) ----
    socketRef,    \* socketRef.current: "mockSocket" as App.jsx installs it, or "io", a
                  \* socket.io connection to the relay
    toRelay,      \* toRelay[c]: events emitted by client c, not yet handled by the relay
    toClient,     \* toClient[c]: messages due at c, not yet dispatched by the client
    \* ---- client (App.jsx), one per connection ----
    status,       \* useState status: idle, connecting, waiting, incall
    currentRoomRef, \* currentRoomRef.current
    localStream,  \* localStreamRef.current is a live capture
    pcRef,        \* peerConnectionRef.current: NoPc or the open connection
    replaced,     \* replaced[c]: connections createPeerConnection replaced, never closed
    cryptoKey,    \* cryptoRef.current.cryptoKey
    registered,   \* registered[c]: the pins captured by the listener sets handleJoin
                  \* registered on the socket, in registration order
    tasks,        \* async functions of the client suspended at an await
    joinsLeft,    \* remaining Join presses
    dropped,      \* history: the ice-candidate listener of a client that has joined and
                  \* not left has run while peerConnectionRef.current was null
    \* ---- media path (E2EECrypto and the insertable-stream pipelines) ----
    engine,       \* engine[e]: an E2EECrypto instance, [cryptoKey, ivCounter]
    issued,       \* nonces the sending engine generated: {[n, iv]}, n the counter at the call
    derives,      \* deriveKeyFromPIN calls resolved on the engines so far
    txIn,         \* txIn[t]: chunks of track t waiting for the sender's transform
    txBusy,       \* txBusy[t]: transforms of the sender's stream suspended in encryptFrame
    txOut,        \* txOut[t]: chunks the sender's transform enqueued, not yet transmitted
    rxIn,         \* rxIn[t]: chunks received for track t, waiting for the receiver's transform
    rxBusy,       \* rxBusy[t]: transforms of the receiver's stream suspended in decryptFrame
    rxOut         \* rxOut[t]: chunks the receiver's transform enqueued, in order

relayVars == <<rooms, sioRooms, currentRoom, connected, exclusion, lastEvt, emitted, departed,
               refused, raisedBy>>

\* What a step of a client leaves alone in the relay.
relayCore == <<rooms, sioRooms, currentRoom, connected, exclusion, departed, refused,
               raisedBy>>

netVars == <<toRelay, toClient, socketRef>>

clientVars == <<status, currentRoomRef, localStream, pcRef, replaced, cryptoKey, registered,
                tasks, joinsLeft, dropped>>

mediaVars == <<engine, issued, derives, txIn, txBusy, txOut, rxIn, rxBusy, rxOut>>

vars == <<relayVars, netVars, clientVars, mediaVars>>

\* ------------------------------------------------------- relay: pure helpers

\* The relay state the handlers read and write.
RelayState == [rooms |-> rooms, sio |-> sioRooms, cur |-> currentRoom]

\* rooms.get(room) || { users: new Set(), occupancy: 0 }
RoomDataOrNew(rms, room) ==
    IF room \in DOMAIN rms THEN rms[room] ELSE [users |-> {}, occupancy |-> 0]

\* rooms.set(room, roomData)
MapSet(rms, room, roomData) ==
    [k \in DOMAIN rms \cup {room} |-> IF k = room THEN roomData ELSE rms[k]]

\* rooms.delete(room)
MapDelete(rms, room) ==
    [k \in DOMAIN rms \ {room} |-> rms[k]]

\* What socket.to() leaves out: the socket whose id is the sender's (socket.io 3.x), or
\* the sockets in the room named by the sender's id (socket.io 4.x).
ExcludedBy == {"socket id", "room"}

\* socket.to(room) of socket.io 3.x: every socket in the adapter's room `room` (joined
\* by join-room, or the socket's own id), except the sender.
ToExceptId(sio, s, room) ==
    {d \in Conn \ {s} : room \in sio[d]}

\* socket.to(room) of socket.io 4.x: every socket in the adapter's room `room`, except
\* those in the room named by the sender's id, whoever they are.
ToExceptRoom(sio, s, room) ==
    {d \in Conn : room \in sio[d] /\ SocketId(s) \notin sio[d]}

\* socket.to(room), as the socket.io of the build has it.
BroadcastTargets(sio, s, room) ==
    IF exclusion = "room" THEN ToExceptRoom(sio, s, room) ELSE ToExceptId(sio, s, room)

\* occupancy(room): 0 when the room has no entry.
Occupancy(rms, room) ==
    IF room \in DOMAIN rms THEN rms[room].occupancy ELSE 0

Users(rms, room) ==
    IF room \in DOMAIN rms THEN rms[room].users ELSE {}

\* ------------------------------------------------------- relay: handlers

\* OnJoinRoom with the capacity test off by one (occupancy > 2 instead of >= 2).
OnJoinRoomOffByOne(st, s, room) ==
    LET roomData == RoomDataOrNew(st.rooms, room)
    IN  IF roomData.occupancy > MaxUsers
        THEN [rooms |-> st.rooms, sio |-> st.sio, cur |-> st.cur,
              emits |-> {<<s, [type |-> "roomFull"]>>}]
        ELSE LET users == roomData.users \cup {s}
                 occ   == Cardinality(users)
                 sio2  == [st.sio EXCEPT ![s] = @ \cup {room}]
             IN  [rooms |-> MapSet(st.rooms, room, [users |-> users, occupancy |-> occ]),
                  sio   |-> sio2,
                  cur   |-> [st.cur EXCEPT ![s] = room],
                  emits |-> {<<s, [type |-> "roomJoined", occupancy |-> occ]>>}
                            \cup {<<d, [type |-> "userJoined", userId |-> s, occupancy |-> occ]>>
                                  : d \in BroadcastTargets(sio2, s, room)}]

\* OnJoinRoom that stores the occupancy it read instead of the new size of the set
\* (roomData.occupancy is never refreshed after users.add).
OnJoinRoomStaleOccupancy(st, s, room) ==
    LET roomData == RoomDataOrNew(st.rooms, room)
    IN  IF roomData.occupancy >= MaxUsers
        THEN [rooms |-> st.rooms, sio |-> st.sio, cur |-> st.cur,
              emits |-> {<<s, [type |-> "roomFull"]>>}]
        ELSE LET users == roomData.users \cup {s}
                 occ   == Cardinality(users)
                 sio2  == [st.sio EXCEPT ![s] = @ \cup {room}]
             IN  [rooms |-> MapSet(st.rooms, room,
                                   [users |-> users, occupancy |-> roomData.occupancy]),
                  sio   |-> sio2,
                  cur   |-> [st.cur EXCEPT ![s] = room],
                  emits |-> {<<s, [type |-> "roomJoined", occupancy |-> occ]>>}
                            \cup {<<d, [type |-> "userJoined", userId |-> s, occupancy |-> occ]>>
                                  : d \in BroadcastTargets(sio2, s, room)}]

\* socket.on('join-room')
OnJoinRoom(st, s, room) ==
    LET roomData == RoomDataOrNew(st.rooms, room)
    IN  IF roomData.occupancy >= MaxUsers
        THEN [rooms |-> st.rooms, sio |-> st.sio, cur |-> st.cur,
              emits |-> {<<s, [type |-> "roomFull"]>>}]
        ELSE LET users == roomData.users \cup {s}
                 occ   == Cardinality(users)
                 sio2  == [st.sio EXCEPT ![s] = @ \cup {room}]
             IN  [rooms |-> MapSet(st.rooms, room, [users |-> users, occupancy |-> occ]),
                  sio   |-> sio2,
                  cur   |-> [st.cur EXCEPT ![s] = room],
                  emits |-> {<<s, [type |-> "roomJoined", occupancy |-> occ]>>}
                            \cup {<<d, [type |-> "userJoined", userId |-> s, occupancy |-> occ]>>
                                  : d \in BroadcastTargets(sio2, s, room)}]

\* A relay that answers the sender (socket.emit) instead of relaying to the room.
OnNegotiationEcho(st, s, type, room, payload) ==
    [rooms |-> st.rooms, sio |-> st.sio, cur |-> st.cur,
     emits |-> {<<s, [type |-> type, payload |-> payload, from |-> s]>>}]

\* socket.on('offer' | 'answer' | 'ice-candidate'): relayed to the room, unchecked.
OnNegotiation(st, s, type, room, payload) ==
    [rooms |-> st.rooms, sio |-> st.sio, cur |-> st.cur,
     emits |-> {<<d, [type |-> type, payload |-> payload, from |-> s]>>
                : d \in BroadcastTargets(st.sio, s, room)}]

\* function handleUserLeave(socket, room)
HandleUserLeave(st, s, room) ==
    LET sio2 == [st.sio EXCEPT ![s] = @ \ {room}]
        cur2 == [st.cur EXCEPT ![s] = Null]
    IN  IF room \in DOMAIN st.rooms
        THEN LET users == st.rooms[room].users \ {s}
                 occ   == Cardinality(users)
             IN  IF occ = 0
                 THEN [rooms |-> MapDelete(st.rooms, room), sio |-> sio2, cur |-> cur2,
                       emits |-> {}]
                 ELSE [rooms |-> MapSet(st.rooms, room, [users |-> users, occupancy |-> occ]),
                       sio   |-> sio2,
                       cur   |-> cur2,
                       emits |-> {<<d, [type |-> "userLeft", userId |-> s, occupancy |-> occ]>>
                                  : d \in BroadcastTargets(st.sio, s, room)}]
        ELSE [rooms |-> st.rooms, sio |-> sio2, cur |-> cur2, emits |-> {}]

\* socket.on('leave-room')
OnLeaveRoom(st, s, room) == HandleUserLeave(st, s, room)

\* socket.on('disconnect'): socket.io has already taken the socket out of every
\* room it joined when the handler runs.
OnDisconnect(st, s) ==
    LET st2 == [rooms |-> st.rooms, sio |-> [st.sio EXCEPT ![s] = {}], cur |-> st.cur]
    IN  IF st.cur[s] # Null
        THEN HandleUserLeave(st2, s, st.cur[s])
        ELSE [rooms |-> st2.rooms, sio |-> st2.sio, cur |-> st2.cur, emits |-> {}]

\* ------------------------------------------------------- relay: actions

\* Rooms s is removed from by a handler's result.
RemovedFrom(res, s) ==
    {r \in Rooms : s \in Users(rooms, r) /\ s \notin Users(res.rooms, r)}

AddedTo(res, s) ==
    {r \in Rooms : s \in Users(res.rooms, r)}

ApplyRelay(res, s, evt) ==
    /\ rooms' = res.rooms
    /\ sioRooms' = res.sio
    /\ currentRoom' = res.cur
    /\ emitted' = res.emits
    /\ lastEvt' = evt
    /\ UNCHANGED exclusion

\* History kept for the relay under arbitrary connections.
TrackDeparted(res, s) ==
    /\ departed' = [departed EXCEPT ![s] = (@ \cup RemovedFrom(res, s)) \ AddedTo(res, s)]
    /\ UNCHANGED <<refused, raisedBy>>

\* History kept for the relay serving the clients.
TrackJoins(res, s, evt) ==
    /\ refused' = [refused EXCEPT ![s] =
                      IF evt.type = "join-room"
                      THEN (IF <<s, [type |-> "roomFull"]>> \in res.emits
                            THEN evt.room ELSE Null)
                      ELSE @]
    /\ raisedBy' = [r \in Rooms |->
                      IF Occupancy(res.rooms, r) < MaxUsers THEN Null
                      ELSE IF Occupancy(rooms, r) < MaxUsers THEN s
                      ELSE raisedBy[r]]
    /\ UNCHANGED departed

JoinRoom(s, room) ==
    /\ connected[s]
    /\ LET res == OnJoinRoom(RelayState, s, room)
       IN  /\ ApplyRelay(res, s, [type |-> "join-room", from |-> s, room |-> room])
           /\ TrackDeparted(res, s)
    /\ UNCHANGED <<connected, netVars, clientVars, mediaVars>>

Negotiate(s, type, room, payload) ==
    /\ connected[s]
    /\ LET res == OnNegotiation(RelayState, s, type, room, payload)
       IN  /\ ApplyRelay(res, s, [type |-> type, from |-> s, room |-> room,
                                  payload |-> payload])
           /\ TrackDeparted(res, s)
    /\ UNCHANGED <<connected, netVars, clientVars, mediaVars>>

LeaveRoom(s, room) ==
    /\ connected[s]
    /\ LET res == OnLeaveRoom(RelayState, s, room)
       IN  /\ ApplyRelay(res, s, [type |-> "leave-room", from |-> s, room |-> room])
           /\ TrackDeparted(res, s)
    /\ UNCHANGED <<connected, netVars, clientVars, mediaVars>>

Disconnect(s) ==
    /\ connected[s]
    /\ LET res == OnDisconnect(RelayState, s)
       IN  /\ ApplyRelay(res, s, [type |-> "disconnect", from |-> s])
           /\ TrackDeparted(res, s)
    /\ connected' = [connected EXCEPT ![s] = FALSE]
    /\ UNCHANGED <<netVars, clientVars, mediaVars>>

\* What a handler emits is put on the wire to each recipient, socket.emit to the
\* sender before socket.to(room).emit.
Deliver(emits) ==
    [d \in Conn |->
        LET mine   == {e[2] : e \in {x \in emits : x[1] = d}}
            direct == {m \in mine : m.type \in {"roomJoined", "roomFull"}}
            Queue(S, q) == IF S = {} THEN q ELSE Append(q, CHOOSE m \in S : TRUE)
        IN  Queue(mine \ direct, Queue(direct, toClient[d]))]

HandlerResult(st, s, evt) ==
    CASE evt.type = "join-room"  -> OnJoinRoom(st, s, evt.room)
      [] evt.type = "leave-room" -> OnLeaveRoom(st, s, evt.room)
      [] OTHER                   -> OnNegotiation(st, s, evt.type, evt.room, evt.payload)

RelayRecv(s) ==
    /\ connected[s]
    /\ toRelay[s] # << >>
    /\ LET evt == Head(toRelay[s])
           res == HandlerResult(RelayState, s, [evt EXCEPT !.from = s])
       IN  /\ ApplyRelay(res, s, evt)
           /\ TrackJoins(res, s, evt)
           /\ toClient' = Deliver(res.emits)
    /\ toRelay' = [toRelay EXCEPT ![s] = Tail(@)]
    /\ UNCHANGED <<connected, socketRef, clientVars, mediaVars>>

\* ------------------------------------------------------- client: E2EECrypto

NoKey == << >>

\* E2EECrypto.deriveKeyFromPIN: PBKDF2 over the PIN with a static salt.
DeriveKeyFromPIN(pin) == <<"PBKDF2", pin, "SecureVideoCall2025", 100000, "SHA-256">>

\* ------------------------------------------------------- client: helpers

\* An RTCPeerConnection: open (created, not closed), tracks (local tracks were added),
\* offered (its local description is an offer), remote (its remote description is
\* set), answered (its local description is an answer), mlines (the session it
\* negotiates has media sections, hence transports).
NoPc == [open |-> FALSE, tracks |-> FALSE, offered |-> FALSE, remote |-> FALSE,
         answered |-> FALSE, mlines |-> FALSE]

\* /^\d+$/.test(pin)
AllDigits(pin) ==
    /\ Len(pin) > 0
    /\ \A i \in 1..Len(pin) : SubSeq(pin, i, i) \in Digits

\* handleJoin's guard without its digit test.
ValidPinLengthOnly(pin) == Len(pin) = PinLen

\* handleJoin's guard: pin.length !== 10 || !/^\d+$/.test(pin) rejects.
ValidPin(pin) == Len(pin) = PinLen /\ AllDigits(pin)

\* mockSocket.emit(event, data): the event is logged and goes nowhere.
MockEmit(c, evt) == toRelay

\* mockSocket.emit('join-room'): setTimeout(() => mockSocket._roomJoined?.({occupancy:
\* 1}), 500).  The armed timer is a roomJoined waiting to be dispatched to the client.
MockTimer(c, evt) ==
    IF evt.type = "join-room"
    THEN [toClient EXCEPT ![c] = Append(@, [type |-> "roomJoined", occupancy |-> 1])]
    ELSE toClient

\* An emit that only logs the event, as the emit of the mock socket does: nothing is
\* put on the wire to the relay.
IoEmitLogsOnly(c, evt) == toRelay

\* emit on a socket.io connection to the relay: the event is sent to the relay.
IoEmit(c, evt) == [toRelay EXCEPT ![c] = Append(@, evt)]

\* socketRef.current.emit(type, data): what is on the wire to the relay afterwards.
Emit(c, evt) == IF socketRef = "io" THEN IoEmit(c, evt) ELSE MockEmit(c, evt)

\* mockSocket.on(event, callback): mockSocket['_' + event] = callback, in place of
\* the callback stored before.
MockOn(c, pin) == [registered EXCEPT ![c] = <<pin>>]

\* on(event, callback) of a socket.io connection adds the callback to the listeners of
\* the event.
IoOn(c, pin) == [registered EXCEPT ![c] = Append(@, pin)]

\* socketRef.current.on(event, callback) for the six listeners of handleJoin.
On(c, pin) == IF socketRef = "io" THEN IoOn(c, pin) ELSE MockOn(c, pin)

\* socketRef.current.emit(type, data): what is due at the client afterwards.
EmitEcho(c, evt) == IF socketRef = "io" THEN toClient ELSE MockTimer(c, evt)

RemoveAt(seq, i) == SubSeq(seq, 1, i - 1) \o SubSeq(seq, i + 1, Len(seq))

\* Derive tasks of c after the cipher engine they were called on changed from `was`
\* to `now`.
Retag(ts, kinds, was, now) ==
    [i \in 1..Len(ts) |->
        IF ts[i].kind \in kinds /\ ts[i].obj = was THEN [ts[i] EXCEPT !.obj = now]
        ELSE ts[i]]

\* The listener continuations that hold a peer connection, by the call they await.
\*   roomJoined listener: createOffer, then setLocalDescription(offer);
\*   offer listener: setRemoteDescription(offer), createAnswer, then
\*     setLocalDescription(answer);
\*   answer listener: setRemoteDescription(answer).
NegotiationKinds ==
    {"createOffer", "setLocalOffer", "setRemoteOffer", "createAnswer", "setLocalAnswer",
     "setRemoteAnswer"}

\* A negotiation task holds its connection as task.pc: Current is the one in
\* peerConnectionRef.current, k > 0 the replaced connection replaced[c][k], Closed a
\* connection handleLeave closed.
Current == 0
Closed == -1

\* Negotiation tasks after the connection they hold changed from `was` to `now`.
Repoint(ts, was, now) ==
    [i \in 1..Len(ts) |->
        IF ts[i].kind \in NegotiationKinds /\ ts[i].pc = was THEN [ts[i] EXCEPT !.pc = now]
        ELSE ts[i]]

\* The connections of client c that were created and not closed: 0 and the indices of
\* replaced[c].
PcAt(c, k) == IF k = Current THEN pcRef[c] ELSE replaced[c][k]

\* A session description: one that announces tracks its sender will send, or one that
\* announces none.
Sdp(sending) == IF sending THEN "sdp" ELSE "sdp-notracks"

\* What the listeners of client c work on: the status, peerConnectionRef.current, the
\* connections replaced, the suspended tasks, and `out`, the events emitted so far in
\* the step.
ClientState(c) ==
    [id |-> c, status |-> status[c], pc |-> pcRef[c], replaced |-> replaced[c],
     tasks |-> tasks[c], out |-> << >>]

\* socketRef.current.emit for each event of evts, in order.
EmitAll(c, evts) == IF socketRef = "io" THEN [toRelay EXCEPT ![c] = @ \o evts] ELSE toRelay

\* The step of client c ends in client state st, which is within the bounds.
Becomes(c, st) ==
    /\ Len(st.tasks) <= MaxTasks /\ Len(st.replaced) <= MaxReplaced
    /\ status' = [status EXCEPT ![c] = st.status]
    /\ pcRef' = [pcRef EXCEPT ![c] = st.pc]
    /\ replaced' = [replaced EXCEPT ![c] = st.replaced]
    /\ tasks' = [tasks EXCEPT ![c] = st.tasks]
    /\ toRelay' = EmitAll(c, st.out)

\* const handleLeave = () => { ... }: closes peerConnectionRef.current only.
\* taskSeq: the client's suspended tasks before the call.
HandleLeave(c, taskSeq) ==
    /\ pcRef' = [pcRef EXCEPT ![c] = NoPc]
    /\ localStream' = [localStream EXCEPT ![c] = FALSE]
    /\ toRelay' = IF currentRoomRef[c] # Null
                  THEN Emit(c, [type |-> "leave-room", from |-> c, room |-> currentRoomRef[c]])
                  ELSE toRelay
    /\ status' = [status EXCEPT ![c] = "idle"]
    /\ currentRoomRef' = [currentRoomRef EXCEPT ![c] = Null]
    /\ cryptoKey' = [cryptoKey EXCEPT ![c] = NoKey]
    /\ tasks' = [tasks EXCEPT ![c] =
                    Retag(Repoint(taskSeq, Current, Closed), {"derive"}, "current", "stale")]

\* const createPeerConnection = async () => { ... }: the new connection replaces
\* peerConnectionRef.current; a connection it replaces is not closed and keeps its
\* handlers.  The listener that called it goes on as `task`, holding the new
\* connection.  stream: localStreamRef.current is set.
CreatePeerConnection(st, stream, task) ==
    [st EXCEPT
        !.pc = [NoPc EXCEPT !.open = TRUE, !.tracks = stream],
        !.replaced = IF st.pc.open THEN Append(@, st.pc) ELSE @,
        !.tasks = Append(IF st.pc.open
                         THEN Repoint(@, Current, Len(st.replaced) + 1)
                         ELSE @,
                         task)]

\* One listener per entry of pins calls createPeerConnection, in registration order;
\* each goes on as a task of the given kind.
RECURSIVE CreateEach(_, _, _, _)
CreateEach(st, stream, pins, task) ==
    IF pins = << >> THEN st
    ELSE CreateEach(CreatePeerConnection(st, stream, [task EXCEPT !.pin = Head(pins)]),
                    stream, Tail(pins), task)

\* One listener per entry of pins calls peerConnectionRef.current
\* .setRemoteDescription(answer); with no connection the call throws and the listener
\* ends.
RECURSIVE AnswerEach(_, _, _)
AnswerEach(st, pins, payload) ==
    IF pins = << >> \/ ~st.pc.open THEN st
    ELSE AnswerEach([st EXCEPT !.tasks = Append(@, [kind |-> "setRemoteAnswer",
                                                     pin |-> Head(pins), pc |-> Current,
                                                     payload |-> payload])],
                    Tail(pins), payload)

\* The calls a connection is asked to make run one after the other, in the order they
\* were made (its operations chain): task i is the earliest pending on its connection.
\* On a closed connection every pending call rejects.
AtHead(ts, i) ==
    \/ ts[i].pc = Closed
    \/ ~\E j \in 1..(i - 1) : ts[j].kind \in NegotiationKinds /\ ts[j].pc = ts[i].pc

\* The call task i of st awaits on its connection settles.  On a connection handleLeave
\* closed it rejects and the listener ends.  Otherwise:
\*   createOffer: resolves, the listener calls setLocalDescription(offer);
\*   setLocalOffer: the offer is the local description, the listener emits it;
\*   setRemoteOffer: the offer is applied, pc.ontrack runs for each track it announces
\*     (setStatus('incall')), the listener calls createAnswer;
\*   createAnswer: resolves, the listener calls setLocalDescription(answer);
\*   setLocalAnswer: the answer is the local description, the listener emits it;
\*   setRemoteAnswer: the answer is applied and pc.ontrack runs if the connection has a
\*     local offer awaiting its answer, otherwise the call rejects.
Settle(st, i) ==
    LET task == st.tasks[i]
        k    == task.pc
        pc   == IF k = Current THEN st.pc ELSE st.replaced[k]
        rest == RemoveAt(st.tasks, i)
        With(now) == [st EXCEPT !.pc = IF k = Current THEN now ELSE @,
                                !.replaced = IF k = Current THEN @
                                             ELSE [@ EXCEPT ![k] = now]]
        Goes(kind) == [st EXCEPT !.tasks = Append(rest, [task EXCEPT !.kind = kind])]
    IN  IF k = Closed THEN [st EXCEPT !.tasks = rest]
        ELSE CASE task.kind = "createOffer" -> Goes("setLocalOffer")
               [] task.kind = "setLocalOffer" ->
                    [With([pc EXCEPT !.offered = TRUE, !.mlines = pc.tracks]) EXCEPT
                        !.tasks = rest,
                        !.out = Append(@, [type |-> "offer", from |-> st.id, room |-> task.pin,
                                           payload |-> Sdp(pc.tracks)])]
               [] task.kind = "setRemoteOffer" ->
                    [With([pc EXCEPT !.remote = TRUE,
                                     !.mlines = (task.payload = Sdp(TRUE))]) EXCEPT
                        !.tasks = Append(rest, [task EXCEPT !.kind = "createAnswer"]),
                        !.status = IF task.payload = Sdp(TRUE) THEN "incall" ELSE @]
               [] task.kind = "createAnswer" -> Goes("setLocalAnswer")
               [] task.kind = "setLocalAnswer" ->
                    [With([pc EXCEPT !.answered = TRUE]) EXCEPT
                        !.tasks = rest,
                        !.out = Append(@, [type |-> "answer", from |-> st.id, room |-> task.pin,
                                           payload |-> Sdp(pc.mlines /\ pc.tracks)])]
               [] OTHER ->
                    IF pc.offered /\ ~pc.remote
                    THEN [With([pc EXCEPT !.remote = TRUE]) EXCEPT
                             !.tasks = rest,
                             !.status = IF task.payload = Sdp(TRUE) THEN "incall" ELSE @]
                    ELSE [st EXCEPT !.tasks = rest]

\* The setRemoteDescription(answer) calls queued next on connection k settle too: a
\* call no listener continues after is finished by the connection as soon as its turn
\* comes.
RECURSIVE Drain(_, _)
Drain(st, k) ==
    LET on == {i \in 1..Len(st.tasks) :
                  st.tasks[i].kind \in NegotiationKinds /\ st.tasks[i].pc = k}
    IN  IF on = {} THEN st
        ELSE LET i == CHOOSE x \in on : \A y \in on : x <= y
             IN  IF st.tasks[i].kind = "setRemoteAnswer" THEN Drain(Settle(st, i), k)
                 ELSE st

\* ------------------------------------------------------- client: actions

\* In a step of a client the relay handles no event and emits nothing.
ClientStep == lastEvt' = NoEvt /\ emitted' = {} /\ UNCHANGED <<mediaVars, socketRef>>

\* handleJoin, up to its first await (deriveKeyFromPIN).
UserJoin(c, pin) ==
    /\ connected[c]
    /\ status[c] = "idle"
    /\ IF ~ValidPin(pin)
       THEN UNCHANGED <<status, currentRoomRef, tasks, joinsLeft>>
       ELSE /\ joinsLeft > 0
            /\ joinsLeft' = joinsLeft - 1
            /\ status' = [status EXCEPT ![c] = "connecting"]
            /\ currentRoomRef' = [currentRoomRef EXCEPT ![c] = pin]
            /\ tasks' = [tasks EXCEPT ![c] =
                            Append(@, [kind |-> "derive", pin |-> pin, obj |-> "current"])]
    /\ ClientStep
    /\ UNCHANGED <<relayCore, toRelay, toClient, localStream, pcRef, replaced, cryptoKey,
                   registered, dropped>>

\* deriveKeyFromPIN resolves: the key is stored in the engine the call was made on,
\* which is cryptoRef.current only if handleLeave has not replaced it meanwhile.
\* handleJoin goes on to await initializeMedia().
DeriveDone(c, i) ==
    /\ connected[c]
    /\ i \in 1..Len(tasks[c])
    /\ tasks[c][i].kind = "derive"
    /\ cryptoKey' = IF tasks[c][i].obj = "current"
                    THEN [cryptoKey EXCEPT ![c] = DeriveKeyFromPIN(tasks[c][i].pin)]
                    ELSE cryptoKey
    /\ tasks' = [tasks EXCEPT ![c][i] = [kind |-> "media", pin |-> @.pin, obj |-> "none"]]
    /\ ClientStep
    /\ UNCHANGED <<relayCore, toRelay, toClient, status, currentRoomRef, localStream, pcRef,
                   replaced, registered, joinsLeft, dropped>>

\* initializeMedia resolves with a stream (ok) or null; handleJoin then either gives
\* up or emits join-room and registers the socket listeners.
MediaDone(c, i, ok) ==
    /\ connected[c]
    /\ i \in 1..Len(tasks[c])
    /\ tasks[c][i].kind = "media"
    /\ tasks' = [tasks EXCEPT ![c] = RemoveAt(@, i)]
    /\ IF ok
       THEN LET evt == [type |-> "join-room", from |-> c, room |-> tasks[c][i].pin]
            IN  /\ localStream' = [localStream EXCEPT ![c] = TRUE]
                /\ toRelay' = Emit(c, evt)
                /\ toClient' = EmitEcho(c, evt)
                /\ registered' = On(c, tasks[c][i].pin)
                /\ UNCHANGED status
       ELSE /\ status' = [status EXCEPT ![c] = "idle"]
            /\ UNCHANGED <<localStream, toRelay, toClient, registered>>
    /\ ClientStep
    /\ UNCHANGED <<relayCore, currentRoomRef, pcRef, replaced, cryptoKey, joinsLeft,
                   dropped>>

\* The hang-up button, shown while status is connecting, waiting or incall.
UserHangUp(c) ==
    /\ connected[c]
    /\ status[c] # "idle"
    /\ HandleLeave(c, tasks[c])
    /\ ClientStep
    /\ UNCHANGED <<relayCore, toClient, replaced, registered, joinsLeft, dropped>>

\* A message for the client (sent by the relay, or due from the mock socket's timer)
\* reaches every listener registered for it, in registration order.  eager: the
\* connection finishes a setRemoteDescription(answer) whose turn has come within the
\* same task.
ClientRecv(c) ==
    /\ connected[c]
    /\ toClient[c] # << >>
    /\ toClient' = [toClient EXCEPT ![c] = Tail(@)]
    /\ LET msg  == Head(toClient[c])
           pins == registered[c]
           on   == pins # << >>
       IN  \/ /\ on /\ msg.type = "roomJoined" /\ msg.occupancy = 1
              /\ status' = [status EXCEPT ![c] = "waiting"]
              /\ UNCHANGED <<toRelay, currentRoomRef, localStream, pcRef, replaced, cryptoKey,
                             tasks>>
           \/ /\ on /\ msg.type = "roomJoined" /\ msg.occupancy = 2
              /\ Becomes(c, CreateEach(ClientState(c), localStream[c], pins,
                                       [kind |-> "createOffer", pin |-> Null,
                                        pc |-> Current]))
              /\ UNCHANGED <<currentRoomRef, localStream, cryptoKey>>
           \/ /\ on /\ msg.type = "offer"
              /\ Becomes(c, CreateEach(ClientState(c), localStream[c], pins,
                                       [kind |-> "setRemoteOffer", pin |-> Null,
                                        pc |-> Current, payload |-> msg.payload]))
              /\ UNCHANGED <<currentRoomRef, localStream, cryptoKey>>
           \/ /\ on /\ msg.type = "answer"
              /\ \E eager \in BOOLEAN :
                    LET queued == AnswerEach(ClientState(c), pins, msg.payload)
                    IN  Becomes(c, IF eager THEN Drain(queued, Current) ELSE queued)
              /\ UNCHANGED <<currentRoomRef, localStream, cryptoKey>>
           \/ /\ on /\ msg.type \in {"userLeft", "roomFull"}
              /\ HandleLeave(c, tasks[c])
              /\ UNCHANGED replaced
           \/ /\ ~on \/ msg.type \in {"userJoined", "ice-candidate"}
                     \/ (msg.type = "roomJoined" /\ msg.occupancy \notin {1, 2})
              /\ UNCHANGED <<toRelay, status, currentRoomRef, localStream, pcRef, replaced,
                             cryptoKey, tasks>>
    /\ dropped' = (\/ dropped
                   \/ /\ registered[c] # << >> /\ status[c] # "idle"
                      /\ Head(toClient[c]).type = "ice-candidate"
                      /\ ~pcRef[c].open)
    /\ ClientStep /\ UNCHANGED <<relayCore, registered, joinsLeft>>

\* The call task i of client c awaits on its connection settles, its turn on the
\* connection having come.  eager: the connection finishes the
\* setRemoteDescription(answer) calls queued behind it within the same task.
NegotiationDone(c, i) ==
    /\ connected[c]
    /\ i \in 1..Len(tasks[c])
    /\ tasks[c][i].kind \in NegotiationKinds
    /\ AtHead(tasks[c], i)
    /\ \E eager \in BOOLEAN :
          LET done == Settle(ClientState(c), i)
          IN  Becomes(c, IF eager THEN Drain(done, tasks[c][i].pc) ELSE done)
    /\ ClientStep
    /\ UNCHANGED <<relayCore, toClient, currentRoomRef, localStream, cryptoKey, registered,
                   joinsLeft, dropped>>

\* pc.onconnectionstatechange of connection k of client c with connectionState
\* disconnected or failed: its transports exist once both descriptions are set.
\* handleLeave closes peerConnectionRef.current; a replaced connection stays open and
\* may change state again.
TransportFail(c, k) ==
    /\ connected[c]
    /\ k \in 0..Len(replaced[c])
    /\ LET pc == PcAt(c, k)
       IN  pc.open /\ pc.mlines /\ pc.remote /\ (pc.offered \/ pc.answered)
    /\ HandleLeave(c, tasks[c])
    /\ ClientStep
    /\ UNCHANGED <<relayCore, toClient, replaced, registered, joinsLeft, dropped>>

\* The page of client s is closed: nothing of the client remains, and once the relay
\* has handled every event s sent it runs its disconnect handler, whose emits are put
\* on the wire.
SocketDisconnect(s) ==
    /\ connected[s]
    /\ socketRef = "io"
    /\ toRelay[s] = << >>
    /\ LET evt == [type |-> "disconnect", from |-> s]
           res == OnDisconnect(RelayState, s)
       IN  /\ ApplyRelay(res, s, evt)
           /\ TrackJoins(res, s, evt)
           /\ toClient' = [Deliver(res.emits) EXCEPT ![s] = << >>]
    /\ connected' = [connected EXCEPT ![s] = FALSE]
    /\ status' = [status EXCEPT ![s] = "idle"]
    /\ currentRoomRef' = [currentRoomRef EXCEPT ![s] = Null]
    /\ localStream' = [localStream EXCEPT ![s] = FALSE]
    /\ pcRef' = [pcRef EXCEPT ![s] = NoPc]
    /\ replaced' = [replaced EXCEPT ![s] = << >>]
    /\ cryptoKey' = [cryptoKey EXCEPT ![s] = NoKey]
    /\ registered' = [registered EXCEPT ![s] = << >>]
    /\ tasks' = [tasks EXCEPT ![s] = << >>]
    /\ UNCHANGED <<toRelay, socketRef, joinsLeft, dropped, mediaVars>>

\* The two clients of a call; the remaining connection is a bystander.
Callers == {"c1", "c2"}

IceCandidateEvt(s, room) ==
    [type |-> "ice-candidate", from |-> s, room |-> room, payload |-> "sdp"]

\* ice-candidate messages not yet handled by the relay or dispatched by a client.
CandidatesInFlight ==
    LET Ice(q) == Cardinality({i \in 1..Len(q) : q[i].type = "ice-candidate"})
        Sum(c) == Ice(toRelay[c]) + Ice(toClient[c])
    IN  Sum("c1") + Sum("c2") + Sum("c3")

\* pc.onicecandidate of connection k of client c: gathering starts once the
\* connection has a local description, and each candidate is emitted for
\* currentRoomRef.current, whatever it is by then.
OnIceCandidate(c, k) ==
    /\ connected[c]
    /\ k \in 0..Len(replaced[c])
    /\ LET pc == PcAt(c, k)
       IN  pc.open /\ pc.mlines /\ (pc.offered \/ pc.answered)
    /\ CandidatesInFlight < MaxCandidates
    /\ toRelay' = Emit(c, IceCandidateEvt(c, currentRoomRef[c]))
    /\ ClientStep
    /\ UNCHANGED <<relayCore, toClient, clientVars>>

\* A connection that is in no call submits an ice-candidate naming a room; the relay
\* forwards it whoever the sender is.
StrayCandidate(s, room) ==
    /\ connected[s]
    /\ status[s] = "idle" /\ registered[s] = << >>
    /\ CandidatesInFlight < MaxCandidates
    /\ toRelay' = IoEmit(s, IceCandidateEvt(s, room))
    /\ ClientStep
    /\ UNCHANGED <<relayCore, toClient, clientVars>>

\* Every client as mounted: idle, nothing held.
ClientInit ==
    /\ status = [c \in Conn |-> "idle"]
    /\ currentRoomRef = [c \in Conn |-> Null]
    /\ localStream = [c \in Conn |-> FALSE]
    /\ pcRef = [c \in Conn |-> NoPc]
    /\ replaced = [c \in Conn |-> << >>]
    /\ cryptoKey = [c \in Conn |-> NoKey]
    /\ registered = [c \in Conn |-> << >>]
    /\ tasks = [c \in Conn |-> << >>]
    /\ joinsLeft = MaxJoins
    /\ dropped = FALSE

\* ------------------------------------------------------- media: numbers

\* Bound: chunks captured, over both tracks.
MaxFrames == 3

\* Bound: encryptFrame calls an engine makes past a checkpoint of its counter.
MaxSeals == 2

\* Bound: frames modified on their way to the receiver.
MaxTampered == 1

\* Bound: deriveKeyFromPIN calls that resolve, over both engines.
MaxDerives == 2

\* new ArrayBuffer(12): length of the nonce that prefixes an encrypted frame.
IvLen == 12

\* AES-GCM appends a 128-bit authentication tag to the ciphertext.
TagLen == 16

\* this.ivCounter is a JavaScript number (a float64); an integer up to 2^53 is held
\* exactly.  It is written here as its 8 bytes, most significant first.
Zero64 == <<0, 0, 0, 0, 0, 0, 0, 0>>

\* 2^53: the first number whose successor a float64 cannot hold.
MaxExact == <<0, 32, 0, 0, 0, 0, 0, 0>>

RECURSIVE IncAt(_, _)
IncAt(n, i) ==
    IF i = 0 THEN n
    ELSE IF n[i] < 255 THEN [n EXCEPT ![i] = @ + 1]
         ELSE IncAt([n EXCEPT ![i] = 0], i - 1)

\* this.ivCounter++: at 2^53 the sum 2^53 + 1 rounds back to 2^53 and the counter
\* stays there.
Increment(n) == IF n = MaxExact THEN n ELSE IncAt(n, Len(n))

\* Counter values at which the sending engine is observed: 0, 2^32 - 1, 2^32.
Checkpoints ==
    << Zero64,
       <<0, 0, 0, 0, 255, 255, 255, 255>>,
       <<0, 0, 0, 1, 0, 0, 0, 0>> >>

\* The counter n after j more keyed calls.
RECURSIVE After(_, _)
After(n, j) == IF j = 0 THEN n ELSE After(Increment(n), j - 1)

\* The counter is fewer than MaxSeals calls past a checkpoint.
NearCheckpoint(n) ==
    \E k \in 1..Len(Checkpoints), j \in 0..(MaxSeals - 1) : n = After(Checkpoints[k], j)

Pow2(k) == IF k = 0 THEN 1 ELSE IF k = 1 THEN 2 ELSE IF k = 2 THEN 4 ELSE IF k = 3 THEN 8
           ELSE IF k = 4 THEN 16 ELSE IF k = 5 THEN 32 ELSE IF k = 6 THEN 64 ELSE 128

\* ToInt32: the low 32 bits of a number, as bits, most significant (the sign) first.
ToInt32(n) ==
    [i \in 1..32 |-> (n[4 + ((i - 1) \div 8) + 1] \div Pow2(7 - ((i - 1) % 8))) % 2]

\* x >> count on an Int32: the count is taken modulo 32 and the sign bit is propagated.
SignedShiftRight(bits, count) ==
    LET k == count % 32
    IN  [i \in 1..32 |-> IF i <= k THEN bits[1] ELSE bits[i - k]]

\* 0xFFFFFFFF as an Int32: all 32 bits set.
AllOnes == [i \in 1..32 |-> 1]

\* x & y on Int32 operands.
BitAnd(a, b) == [i \in 1..32 |-> a[i] * b[i]]

\* DataView.setUint32(offset, value): the value modulo 2^32 as 4 bytes, big-endian.
SetUint32(bits) ==
    [j \in 1..4 |->
        bits[8 * j - 7] * 128 + bits[8 * j - 6] * 64 + bits[8 * j - 5] * 32
        + bits[8 * j - 4] * 16 + bits[8 * j - 3] * 8 + bits[8 * j - 2] * 4
        + bits[8 * j - 1] * 2 + bits[8 * j]]

\* E2EECrypto.generateIV with this.ivCounter = n: the nonce and the new counter.
GenerateIV(n) ==
    [iv        |-> SetUint32(SignedShiftRight(ToInt32(n), 32))
                   \o SetUint32(BitAnd(ToInt32(n), AllOnes))
                   \o <<0, 0, 0, 0>>,
     ivCounter |-> Increment(n)]

\* ------------------------------------------------------- media: E2EECrypto

\* The sender's and the receiver's cryptoRef.current.
Engines == {"tx", "rx"}

Tracks == {"audio", "video"}

\* Frame payloads: the empty one and one shorter than a nonce.
FramePayloads == {<< >>, <<7>>}

\* Secrets the engines derive their keys from.
DerivePins == {PinA, PinB}

\* What happens to a frame between the two clients.
WireModes == {"intact", "ciphertext", "nonce"}

\* constructor()
NewE2EECrypto == [cryptoKey |-> NoKey, ivCounter |-> Zero64]

\* Frame data: `plain` are bytes in the clear; `sealed` holds the output of AES-GCM, if
\* any, as the key, nonce and plaintext it was made from and whether it is unmodified.
Raw(bytes) == [plain |-> bytes, sealed |-> << >>]

\* data.byteLength
ByteLength(d) ==
    Len(d.plain) + (IF d.sealed = << >> THEN 0 ELSE Len(d.sealed[1].p) + TagLen)

\* crypto.subtle.encrypt({name: 'AES-GCM', iv}, key, data): ciphertext and tag.
AesGcmEncrypt(key, iv, p) == [key |-> key, iv |-> iv, p |-> p, intact |-> TRUE]

\* crypto.subtle.decrypt({name: 'AES-GCM', iv}, key, encrypted) resolves only for an
\* unmodified ciphertext made under the same key and nonce.
AesGcmOpens(key, iv, d) ==
    /\ Len(d.plain) = IvLen
    /\ d.sealed # << >>
    /\ d.sealed[1].intact
    /\ d.sealed[1].key = key
    /\ d.sealed[1].iv = iv

\* async encryptFrame(data) on engine eng: the result and the engine afterwards.
EncryptFrame(eng, p) ==
    IF eng.cryptoKey = NoKey
    THEN [out |-> Raw(p), eng |-> eng, keyed |-> FALSE]
    ELSE LET g == GenerateIV(eng.ivCounter)
         IN  [out   |-> [plain  |-> g.iv,
                         sealed |-> <<AesGcmEncrypt(eng.cryptoKey, g.iv, p)>>],
              eng   |-> [eng EXCEPT !.ivCounter = g.ivCounter],
              keyed |-> TRUE]

\* decryptFrame whose length test counts the payload only, without nonce and tag.
DecryptFramePayloadLength(eng, d) ==
    IF eng.cryptoKey = NoKey \/ ByteLength(d) - IvLen - TagLen < IvLen
    THEN [out |-> d, verdict |-> "passed"]
    ELSE LET iv == SubSeq(d.plain, 1, IvLen)
         IN  IF d.sealed # << >> /\ d.sealed[1].intact /\ d.sealed[1].key = eng.cryptoKey
                 /\ d.sealed[1].iv = iv
             THEN [out |-> Raw(d.sealed[1].p), verdict |-> "opened"]
             ELSE [out |-> Raw(<< >>), verdict |-> "failed"]

\* async decryptFrame(data) on engine eng: the result and what became of the frame.
DecryptFrame(eng, d) ==
    IF eng.cryptoKey = NoKey \/ ByteLength(d) < IvLen
    THEN [out |-> d, verdict |-> "passed"]
    ELSE LET iv == SubSeq(d.plain, 1, IvLen)
         IN  IF AesGcmOpens(eng.cryptoKey, iv, d)
             THEN [out |-> Raw(d.sealed[1].p), verdict |-> "opened"]
             ELSE [out |-> Raw(<< >>), verdict |-> "failed"]

\* A frame on its way to the receiver: unchanged, ciphertext modified, nonce modified.
OnWire(d, mode) ==
    IF mode = "ciphertext" /\ d.sealed # << >>
    THEN [d EXCEPT !.sealed = <<[d.sealed[1] EXCEPT !.intact = FALSE]>>]
    ELSE IF mode = "nonce" /\ d.plain # << >>
    THEN [d EXCEPT !.plain = [@ EXCEPT ![1] = (@ + 1) % 256]]
    ELSE d

\* ------------------------------------------------------- media: pipelines

\* A step of the media path involves neither the relay nor the call coordinator.
MediaStep == UNCHANGED <<relayVars, netVars, clientVars, derives>>

\* A stream that would call transform for a chunk while earlier calls are suspended.
TransformStartsAnyTime(inflight) == TRUE

\* TransformStream calls transform for the next chunk only when the promise of the
\* previous call has settled.
TransformMayStart(inflight) == inflight = << >>

\* Chunks of track t captured so far.
Captured(t) ==
    Len(txIn[t]) + Len(txBusy[t]) + Len(txOut[t]) + Len(rxIn[t]) + Len(rxBusy[t])
    + Len(rxOut[t])

CapturedInAll == Captured("audio") + Captured("video")

\* An encoded frame of track t leaves the encoder and enters the sender's stream.
Capture(t, p) ==
    /\ CapturedInAll < MaxFrames
    /\ txIn' = [txIn EXCEPT ![t] =
                   Append(@, [id |-> Captured(t) + 1, data |-> Raw(p), orig |-> p,
                              encKey |-> NoKey, wire |-> "none", decKey |-> NoKey,
                              verdict |-> "none"])]
    /\ UNCHANGED <<engine, issued, txBusy, txOut, rxIn, rxBusy, rxOut>>
    /\ MediaStep

\* deriveKeyFromPIN(pin) on engine e resolves: this.cryptoKey is replaced, whatever
\* it was, and this.ivCounter is kept.
DeriveKey(e, pin) ==
    /\ derives < MaxDerives
    /\ derives' = derives + 1
    /\ engine' = [engine EXCEPT ![e].cryptoKey = DeriveKeyFromPIN(pin)]
    /\ UNCHANGED <<issued, txIn, txBusy, txOut, rxIn, rxBusy, rxOut>>
    /\ UNCHANGED <<relayVars, netVars, clientVars>>

\* setupInsertableStreams, transform up to the await: encryptFrame runs generateIV and
\* suspends in crypto.subtle.encrypt.  Without a key encryptFrame returns the
\* ArrayBuffer it was given, whose .buffer is undefined: assigning it to chunk.data
\* throws when the transform resumes.
TxStart(t) ==
    /\ txIn[t] # << >>
    /\ TransformMayStart(txBusy[t])
    /\ LET chunk == Head(txIn[t])
           res   == EncryptFrame(engine["tx"], chunk.orig)
       IN  /\ engine' = [engine EXCEPT !["tx"] = res.eng]
           /\ issued' = IF res.keyed
                        THEN issued \cup {[key |-> engine["tx"].cryptoKey,
                                           n   |-> engine["tx"].ivCounter,
                                           iv  |-> res.out.plain]}
                        ELSE issued
           /\ txBusy' = [txBusy EXCEPT ![t] =
                            Append(@, [chunk EXCEPT !.data = res.out,
                                                    !.encKey = engine["tx"].cryptoKey])]
    /\ txIn' = [txIn EXCEPT ![t] = Tail(@)]
    /\ UNCHANGED <<txOut, rxIn, rxBusy, rxOut>>
    /\ MediaStep

\* setupInsertableStreams, transform after the await: controller.enqueue(chunk).
TxDone(t, i) ==
    /\ i \in 1..Len(txBusy[t])
    /\ txBusy[t][i].encKey # NoKey
    /\ txOut' = [txOut EXCEPT ![t] = Append(@, txBusy[t][i])]
    /\ txBusy' = [txBusy EXCEPT ![t] = RemoveAt(@, i)]
    /\ UNCHANGED <<engine, issued, txIn, rxIn, rxOut, rxBusy>>
    /\ MediaStep

\* Frames that were modified on the wire so far.
Tampered ==
    LET Bad(q) == Cardinality({i \in 1..Len(q) : q[i].wire \notin {"none", "intact"}})
    IN  Bad(rxIn["audio"]) + Bad(rxBusy["audio"]) + Bad(rxOut["audio"])
        + Bad(rxIn["video"]) + Bad(rxBusy["video"]) + Bad(rxOut["video"])

\* The transport carries the next frame of track t to the receiver.
Transmit(t, mode) ==
    /\ txOut[t] # << >>
    /\ mode # "intact" => Tampered < MaxTampered
    /\ rxIn' = [rxIn EXCEPT ![t] =
                   Append(@, [Head(txOut[t]) EXCEPT !.data = OnWire(@, mode),
                                                    !.wire = mode])]
    /\ txOut' = [txOut EXCEPT ![t] = Tail(@)]
    /\ UNCHANGED <<engine, issued, txIn, txBusy, rxBusy, rxOut>>
    /\ MediaStep

\* setupReceiverStreams, transform up to the await inside decryptFrame.
RxStart(t) ==
    /\ rxIn[t] # << >>
    /\ TransformMayStart(rxBusy[t])
    /\ LET chunk == Head(rxIn[t])
           res   == DecryptFrame(engine["rx"], chunk.data)
       IN  rxBusy' = [rxBusy EXCEPT ![t] =
                         Append(@, [chunk EXCEPT !.data = res.out,
                                                 !.decKey = engine["rx"].cryptoKey,
                                                 !.verdict = res.verdict])]
    /\ rxIn' = [rxIn EXCEPT ![t] = Tail(@)]
    /\ UNCHANGED <<engine, issued, txIn, txBusy, txOut, rxOut>>
    /\ MediaStep

\* setupReceiverStreams, transform after the await: chunk.data = decrypted.buffer;
\* controller.enqueue(chunk).
RxDone(t, i) ==
    /\ i \in 1..Len(rxBusy[t])
    /\ rxOut' = [rxOut EXCEPT ![t] = Append(@, rxBusy[t][i])]
    /\ rxBusy' = [rxBusy EXCEPT ![t] = RemoveAt(@, i)]
    /\ UNCHANGED <<engine, issued, txIn, txBusy, txOut, rxIn>>
    /\ MediaStep

NoFrames == [t \in Tracks |-> << >>]

PipelinesEmpty ==
    /\ txIn = NoFrames /\ txBusy = NoFrames /\ txOut = NoFrames
    /\ rxIn = NoFrames /\ rxBusy = NoFrames /\ rxOut = NoFrames

\* No call has carried media yet: both engines as constructed.
MediaInit ==
    /\ engine = [e \in Engines |-> NewE2EECrypto]
    /\ issued = {}
    /\ derives = 0
    /\ PipelinesEmpty

\* The sending engine is new, or holds a key and has made the encryptFrame calls up to
\* a checkpoint; `issued` remembers those of them made at the earlier checkpoints.
MediaInitAt(k) ==
    /\ engine = [e \in Engines |->
                    IF e = "tx" /\ k > 1
                    THEN [cryptoKey |-> DeriveKeyFromPIN(PinA), ivCounter |-> Checkpoints[k]]
                    ELSE NewE2EECrypto]
    /\ issued = {[key |-> DeriveKeyFromPIN(PinA), n |-> Checkpoints[j],
                  iv |-> GenerateIV(Checkpoints[j]).iv] : j \in 1..(k - 1)}
    /\ derives = 0
    /\ PipelinesEmpty

\* ------------------------------------------------------- media: engines of a call

\* cryptoRef.current.encryptFrame(data) on the engine of party e, called by the
\* transform of one of its outbound tracks.
Seal(e, p) ==
    /\ NearCheckpoint(engine[e].ivCounter)
    /\ LET res == EncryptFrame(engine[e], p)
       IN  /\ engine' = [engine EXCEPT ![e] = res.eng]
           /\ issued' = IF res.keyed
                        THEN issued \cup {[key |-> engine[e].cryptoKey,
                                           n   |-> engine[e].ivCounter,
                                           iv  |-> res.out.plain]}
                        ELSE issued
    /\ UNCHANGED <<txIn, txBusy, txOut, rxIn, rxBusy, rxOut>>
    /\ MediaStep

\* handleLeave: cryptoRef.current = new E2EECrypto(); the next call of party e
\* starts on a fresh engine.
Renew(e) ==
    /\ engine[e] # NewE2EECrypto
    /\ engine' = [engine EXCEPT ![e] = NewE2EECrypto]
    /\ UNCHANGED <<issued, txIn, txBusy, txOut, rxIn, rxBusy, rxOut>>
    /\ MediaStep

\* ------------------------------------------------------- specification

RelayInit ==
    /\ rooms = << >>
    /\ sioRooms = [s \in Conn |-> {SocketId(s)}]
    /\ currentRoom = [s \in Conn |-> Null]
    /\ connected = [s \in Conn |-> TRUE]
    /\ lastEvt = NoEvt
    /\ emitted = {}
    /\ departed = [s \in Conn |-> {}]
    /\ refused = [s \in Conn |-> Null]
    /\ raisedBy = [r \in Rooms |-> Null]

\* The relay is built with either socket.io.
AnyBuild == exclusion \in ExcludedBy

\* One build standing for both: where no event names a socket id as a room, every socket
\* is in the room of its own id and in no other socket's (BuildsAgree), and the two
\* rules leave out the sender alone.
OneBuild == exclusion = "socket id"

\* socketRef.current = mockSocket: the client as App.jsx ships it.
NetInit ==
    /\ socketRef = "mockSocket"
    /\ toRelay = [c \in Conn |-> << >>]
    /\ toClient = [c \in Conn |-> << >>]

\* socketRef.current is a socket.io connection to the relay.
NetInitIo ==
    /\ socketRef = "io"
    /\ toRelay = [c \in Conn |-> << >>]
    /\ toClient = [c \in Conn |-> << >>]

Init == RelayInit /\ AnyBuild /\ NetInit /\ ClientInit /\ MediaInit

\* The clients and the media path, which name no socket id as a room.
InitApp == RelayInit /\ OneBuild /\ NetInit /\ ClientInit /\ MediaInit

\* The relay under arbitrary connections: any connected socket may send any event.
Next ==
    \/ \E s \in Conn, room \in Rooms : JoinRoom(s, room)
    \/ \E s \in Conn, room \in Rooms : LeaveRoom(s, room)
    \/ \E s \in Conn, type \in NegotiationTypes, room \in Rooms, payload \in RelayPayloads :
          Negotiate(s, type, room, payload)
    \/ \E s \in Conn : Disconnect(s)

Spec == Init /\ [][Next]_vars

\* The browser clients as App.jsx ships them, each on its mock socket.
NextDemo ==
    \/ \E c \in Conn, pin \in PinInputs : UserJoin(c, pin)
    \/ \E c \in Conn, i \in 1..MaxTasks : DeriveDone(c, i)
    \/ \E c \in Conn, i \in 1..MaxTasks, ok \in BOOLEAN : MediaDone(c, i, ok)
    \/ \E c \in Conn : UserHangUp(c)
    \/ \E c \in Conn : ClientRecv(c)

SpecDemo == InitApp /\ [][NextDemo]_vars

\* The relay serving two browser clients of App.jsx, each connected to it.  The user
\* of c1 may hang up at any time and join again; the user of c2 presses no hang-up
\* button: its client leaves on userLeft, on a transport failure, or with its page.
InitCall == RelayInit /\ OneBuild /\ NetInitIo /\ ClientInit /\ MediaInit

NextCall ==
    \/ \E c \in Callers : UserJoin(c, PinA)
    \/ \E c \in Callers, i \in 1..MaxTasks : DeriveDone(c, i)
    \/ \E c \in Callers, i \in 1..MaxTasks, ok \in BOOLEAN : MediaDone(c, i, ok)
    \/ \E c \in {"c1"} : UserHangUp(c)
    \/ \E c \in Callers : RelayRecv(c)
    \/ \E c \in Callers : ClientRecv(c)
    \/ \E c \in Callers, i \in 1..MaxTasks : NegotiationDone(c, i)
    \/ \E c \in Callers, k \in 0..MaxReplaced : TransportFail(c, k)
    \/ \E c \in Callers, k \in 0..MaxReplaced : OnIceCandidate(c, k)
    \/ \E c \in Callers : SocketDisconnect(c)

SpecCall == InitCall /\ [][NextCall]_vars

\* Three clients arrive at one room and stay: nobody hangs up, no capture and no
\* transport fails.
NextFull ==
    \/ \E c \in Conn : UserJoin(c, PinA)
    \/ \E c \in Conn, i \in 1..MaxTasks : DeriveDone(c, i)
    \/ \E c \in Conn, i \in 1..MaxTasks : MediaDone(c, i, TRUE)
    \/ \E c \in Conn : RelayRecv(c)
    \/ \E c \in Conn : ClientRecv(c)
    \/ \E c \in Conn, i \in 1..MaxTasks : NegotiationDone(c, i)

SpecFull == InitCall /\ [][NextFull]_vars

\* The media path between a sending and a receiving client.

NextMedia ==
    \/ \E e \in Engines, pin \in DerivePins : DeriveKey(e, pin)
    \/ \E t \in Tracks, p \in FramePayloads : Capture(t, p)
    \/ \E t \in Tracks : TxStart(t)
    \/ \E t \in Tracks, i \in 1..MaxFrames : TxDone(t, i)
    \/ \E t \in Tracks, mode \in WireModes : Transmit(t, mode)
    \/ \E t \in Tracks : RxStart(t)
    \/ \E t \in Tracks, i \in 1..MaxFrames : RxDone(t, i)

SpecMedia == InitApp /\ [][NextMedia]_vars

\* Clients whose sending engine is at a checkpoint of its counter.
InitSeal ==
    /\ RelayInit /\ OneBuild /\ NetInit /\ ClientInit
    /\ \E k \in 1..Len(Checkpoints) : MediaInitAt(k)

\* The media path of two clients that entered the same secret, frames arriving as
\* sent, the sender observed from a checkpoint of its counter.
NextTrip ==
    \/ \E e \in Engines : DeriveKey(e, PinA)
    \/ \E t \in Tracks, p \in FramePayloads : Capture(t, p)
    \/ \E t \in Tracks : TxStart(t)
    \/ \E t \in Tracks, i \in 1..MaxFrames : TxDone(t, i)
    \/ \E t \in Tracks : Transmit(t, "intact")
    \/ \E t \in Tracks : RxStart(t)
    \/ \E t \in Tracks, i \in 1..MaxFrames : RxDone(t, i)

SpecTrip == InitSeal /\ [][NextTrip]_vars

\* The cipher engines of the two parties over successive calls, the sender's observed
\* from a checkpoint of its counter.
NextSeal ==
    \/ \E e \in Engines, pin \in DerivePins : DeriveKey(e, pin)
    \/ \E e \in Engines, p \in FramePayloads : Seal(e, p)
    \/ \E e \in Engines : Renew(e)

SpecSeal == InitSeal /\ [][NextSeal]_vars

\* Two clients join with the same secret and stay: nobody hangs up, no capture and
\* no transport fails.
NextNegotiate ==
    \/ \E c \in Callers : UserJoin(c, PinA)
    \/ \E c \in Callers, i \in 1..MaxTasks : DeriveDone(c, i)
    \/ \E c \in Callers, i \in 1..MaxTasks : MediaDone(c, i, TRUE)
    \/ \E c \in Conn : RelayRecv(c)
    \/ \E c \in Conn : ClientRecv(c)
    \/ \E c \in Callers, i \in 1..MaxTasks : NegotiationDone(c, i)
    \/ \E c \in Callers : OnIceCandidate(c, Current)
    \/ \E s \in Conn \ Callers : StrayCandidate(s, PinA)

\* The relay handles every event it was sent, every client dispatches every message
\* it was sent, and every pending promise of a handler settles.
FairNegotiate ==
    /\ \A c \in Conn : WF_vars(RelayRecv(c)) /\ WF_vars(ClientRecv(c))
    /\ \A c \in Callers, i \in 1..MaxTasks :
          /\ WF_vars(DeriveDone(c, i))
          /\ WF_vars(MediaDone(c, i, TRUE))
          /\ WF_vars(NegotiationDone(c, i))

SpecNegotiate == InitCall /\ [][NextNegotiate]_vars /\ FairNegotiate

\* ======================================================= properties: relay

\* Both rules of socket.to() give the same recipients, whoever sends to whichever room.
BuildsAgree ==
    \A s \in Conn, r \in Rooms :
        ToExceptId(sioRooms, s, r) = ToExceptRoom(sioRooms, s, r)

RoomFullMsg == [type |-> "roomFull"]

JoinEvt(s, room) == [type |-> "join-room", from |-> s, room |-> room]

LeaveEvt(s, room) == [type |-> "leave-room", from |-> s, room |-> room]

IsNegotiation(evt) == evt.type \in NegotiationTypes

\* Every room's occupancy is 0, 1 or 2 and is the size of its membership set.
OccupancyInRange ==
    \A r \in Rooms :
        /\ Occupancy(rooms, r) \in 0..MaxUsers
        /\ Occupancy(rooms, r) = Cardinality(Users(rooms, r))

\* A join-room handled while the room's occupancy is 2 is answered with roomFull,
\* to the sender only, and leaves every room's membership as it was.
FullRoomJoinRefused ==
    \A s \in Conn, r \in Rooms :
        (lastEvt' = JoinEvt(s, r) /\ Occupancy(rooms, r) = MaxUsers)
            => /\ emitted' = {<<s, RoomFullMsg>>}
               /\ rooms' = rooms

\* C1: for every sequence of join-room, leave-room and disconnect events of any
\* connections, every room's occupancy stays in {0,1,2}, and a join-room arriving at
\* a room of occupancy 2 is answered with roomFull and changes no room's membership.
C1_OccupancyCap == []OccupancyInRange /\ [][FullRoomJoinRefused]_vars

\* C1 witness: a connection outside a room of occupancy 2 has just been refused.
C1_Witness ==
    /\ lastEvt.type = "join-room"
    /\ emitted = {<<lastEvt.from, RoomFullMsg>>}
    /\ Occupancy(rooms, lastEvt.room) = MaxUsers
    /\ lastEvt.from \notin Users(rooms, lastEvt.room)

\* The sockets a negotiation message was emitted to in the last step.
Recipients(emits) == {e[1] : e \in emits}

\* The relay handles a negotiation message of s naming room r: if s occupies r the
\* message goes to exactly the other occupants, and every recipient occupies r with s.
NegotiationRoutedByMembership ==
    \A s \in Conn, r \in Rooms :
        (IsNegotiation(lastEvt') /\ lastEvt'.from = s /\ lastEvt'.room = r)
            => /\ s \in Users(rooms, r)
                    => Recipients(emitted') = {d \in Users(rooms, r) \ {s} : connected[d]}
               /\ \A d \in Recipients(emitted') :
                      s \in Users(rooms, r) /\ d \in Users(rooms, r)

\* C4 (as claimed): a negotiation message submitted by occupant X of room R goes to
\* every other occupant of R, not to X, and to nobody outside R; and whoever receives
\* a relayed negotiation message shares the named room with its sender.
C4_Claimed == [][NegotiationRoutedByMembership]_vars

\* The relay handles a leave-room of s naming a room s is not recorded in.
UnrecordedLeaveIsNoOp ==
    \A s \in Conn, r \in Rooms :
        (lastEvt' = LeaveEvt(s, r) /\ s \notin Users(rooms, r))
            => /\ rooms' = rooms
               /\ emitted' = {}
               /\ currentRoom' = currentRoom

\* C5 (as claimed): leave-room naming a (room, connection) pair that is not recorded
\* changes no membership or occupancy, emits no userLeft and leaves currentRoom alone.
C5_Claimed == [][UnrecordedLeaveIsNoOp]_vars

\* C6 (as claimed): a disconnected connection is in no room's membership set.
C6_Claimed ==
    \A s \in Conn : ~connected[s] => \A r \in Rooms : s \notin Users(rooms, r)

\* C7 (as claimed): every connection is a member of at most one room, and of room R
\* exactly when its currentRoom is R.
C7_Claimed ==
    \A s \in Conn :
        /\ Cardinality({r \in Rooms : s \in Users(rooms, r)}) <= 1
        /\ \A r \in Rooms : s \in Users(rooms, r) <=> currentRoom[s] = r

\* The relay handles a negotiation message naming room r after s departed from r.
DepartedIsCutOff ==
    \A s \in Conn, r \in Rooms :
        (IsNegotiation(lastEvt') /\ lastEvt'.room = r)
            => /\ (lastEvt'.from = s /\ r \in departed[s]) => emitted' = {}
               /\ (r \in departed[s] \/ ~connected[s]) => s \notin Recipients(emitted')

\* C8 (as claimed): once a connection has left room R or disconnected, a negotiation
\* message it submits naming R reaches nobody, and no negotiation message submitted
\* in R reaches it.
C8_Claimed == [][DepartedIsCutOff]_vars

\* The second of two racing joins, handled right after the first.
SecondJoinRefused(b, r) ==
    LET res == OnJoinRoom(RelayState', b, r)
    IN  /\ res.emits = {<<b, RoomFullMsg>>}
        /\ res.rooms = rooms'

FirstJoinAccepted(a, r) ==
    /\ <<a, [type |-> "roomJoined", occupancy |-> MaxUsers]>> \in emitted'
    /\ Users(rooms', r) = Users(rooms, r) \cup {a}
    /\ Occupancy(rooms', r) = MaxUsers

\* Two racing joins of any two distinct connections at a room of occupancy 1.
RacingJoinsAnyTwo ==
    \A a \in Conn, b \in Conn, r \in Rooms :
        (/\ a # b
         /\ connected[a] /\ connected[b]
         /\ Occupancy(rooms, r) = 1
         /\ lastEvt' = JoinEvt(a, r))
            => FirstJoinAccepted(a, r) /\ SecondJoinRefused(b, r)

\* C9 (as claimed): of two distinct connections whose join-room for a room of
\* occupancy 1 are pending together, whichever the relay handles first is accepted
\* (occupancy becomes 2) and the other is then answered roomFull.
C9_Claimed == [][RacingJoinsAnyTwo]_vars

\* Two racing joins of two distinct connections, neither the room's occupant.
RacingJoinsNewcomers ==
    \A a \in Conn, b \in Conn, r \in Rooms :
        (/\ a # b
         /\ connected[a] /\ connected[b]
         /\ a \notin Users(rooms, r) /\ b \notin Users(rooms, r)
         /\ Occupancy(rooms, r) = 1
         /\ lastEvt' = JoinEvt(a, r))
            => FirstJoinAccepted(a, r) /\ SecondJoinRefused(b, r)

\* C9 (amended): of two distinct connections, neither of which is already an occupant
\* of the room, whose join-room for a room of occupancy 1 are pending together,
\* whichever the relay handles first is accepted (occupancy becomes 2) and the other is
\* then answered roomFull.
C9_RacingNewcomers == [][RacingJoinsNewcomers]_vars

\* C9 witness: the first of two racing newcomers has just raised the occupancy to 2
\* and the join of the other, still outside the room, is refused from here.
C9_Witness ==
    /\ lastEvt.type = "join-room"
    /\ <<lastEvt.from, [type |-> "roomJoined", occupancy |-> MaxUsers]>> \in emitted
    /\ \E b \in Conn \ {lastEvt.from} :
           /\ connected[b]
           /\ b \notin Users(rooms, lastEvt.room)
           /\ OnJoinRoom(RelayState, b, lastEvt.room).emits = {<<b, RoomFullMsg>>}

\* ======================================================= properties: call

\* C2 (as claimed): whenever a client's peer connection exists with outbound tracks,
\* its current cipher engine holds a derived key.
C2_Claimed ==
    \A c \in Conn : (pcRef[c].open /\ pcRef[c].tracks) => cryptoKey[c] # NoKey

\* The relay handles the leave-room of a client z that was refused at room r and has
\* taken the roomFull off the wire, while r still has its two occupants.
RefusedLeaveHarmless ==
    \A z \in Conn, r \in Rooms :
        (/\ lastEvt' = LeaveEvt(z, r)
         /\ refused[z] = r
         /\ \A i \in 1..Len(toClient[z]) : toClient[z][i].type # "roomFull"
         /\ z \notin Users(rooms, r)
         /\ Occupancy(rooms, r) = MaxUsers)
            => /\ Users(rooms', r) = Users(rooms, r)
               /\ Occupancy(rooms', r) = MaxUsers
               /\ \A x \in Users(rooms, r) : x \notin Recipients(emitted')

\* A client handles a userLeft that names a refused connection and reports nobody
\* gone (occupancy still 2).
NoTeardownWithoutDeparture ==
    \A x \in Conn :
        (/\ toClient[x] # << >>
         /\ toClient'[x] = Tail(toClient[x])
         /\ Head(toClient[x]).type = "userLeft"
         /\ Head(toClient[x]).occupancy = MaxUsers
         /\ refused[Head(toClient[x]).userId] # Null)
            => status'[x] = status[x] /\ pcRef'[x] = pcRef[x]

\* C3 (as claimed): when Z is refused at a room occupied by X and Y, then after Z's
\* client has reacted to roomFull, X and Y are still the recorded occupants, the
\* occupancy is still 2, neither was sent a notification, and neither tears its call
\* down.
C3_Claimed == [][RefusedLeaveHarmless /\ NoTeardownWithoutDeparture]_vars

\* An offer relayed between the two occupants of a room was submitted by the one
\* whose join raised the occupancy to 2.
OfferFromSecondArrival ==
    \A s \in Conn, r \in Rooms :
        (/\ lastEvt'.type = "offer" /\ lastEvt'.from = s /\ lastEvt'.room = r
         /\ s \in Users(rooms, r)
         /\ \E d \in Recipients(emitted') : d \in Users(rooms, r))
            => raisedBy[r] = s

\* C10 (as claimed): of two clients occupying the same room, only the one whose join
\* raised the occupancy to 2 sends the other an offer.
C10_Claimed == [][OfferFromSecondArrival]_vars

\* What a join request can touch in the coordinator and on the wire to the relay.
JoinEffects == <<status, currentRoomRef, localStream, pcRef, replaced, cryptoKey, registered,
                 tasks, toRelay, toClient>>

\* C12: handleJoin called with a secret that is not exactly 10 characters or not all
\* digits changes nothing: the status stays idle, no key is derived, no capture is
\* started, no room association is recorded and no join-room is emitted.
C12_InvalidJoinNoEffect ==
    \A c \in Conn, pin \in PinInputs :
        ~(Len(pin) = PinLen /\ \A i \in 1..Len(pin) : SubSeq(pin, i, i) \in Digits)
            => ~ENABLED (UserJoin(c, pin) /\ JoinEffects' # JoinEffects)

\* C12 witness: a malformed secret can be submitted by an idle client that still holds
\* the key and room of an earlier attempt, while another client waits for a peer.
C12_Witness ==
    \E c \in Conn : \E d \in Conn \ {c} :
        /\ ENABLED UserJoin(c, PinAlpha) /\ ENABLED UserJoin(c, PinShort)
        /\ cryptoKey[c] # NoKey /\ currentRoomRef[c] # Null
        /\ status[d] = "waiting"

\* The status changes the life cycle allows, besides a return to idle.
StatusMoves == {<<"idle", "connecting">>, <<"connecting", "waiting">>,
                <<"connecting", "incall">>, <<"waiting", "incall">>}

StatusMoveAllowed ==
    \A c \in Conn :
        status'[c] # status[c] => (status'[c] = "idle" \/ <<status[c], status'[c]>> \in StatusMoves)

\* C13 (as claimed): the coordinator's status only moves idle -> connecting,
\* connecting -> waiting, connecting or waiting -> in-call, and from any status to
\* idle; a late roomJoined, offer or remote track never moves it from idle straight
\* to waiting or in-call.
C13_Claimed == [][StatusMoveAllowed]_vars

\* C14 (as claimed): whenever the coordinator is idle again after a call attempt
\* (hang-up, userLeft, roomFull, transport failure, media-capture failure) it has no
\* open peer connection, no running capture, no room association and no key material
\* (stated for a coordinator none of whose async handlers is still suspended).
C14_Claimed ==
    \A c \in Conn :
        (status[c] = "idle" /\ tasks[c] = << >>)
            => /\ ~pcRef[c].open
               /\ ~localStream[c]
               /\ currentRoomRef[c] = Null
               /\ cryptoKey[c] = NoKey

\* The step is the relay handling join-room(r) from s and not answering roomFull.
JoinAccepted(s, r) ==
    /\ lastEvt' = [type |-> "join-room", from |-> s, room |-> r]
    /\ <<s, [type |-> "roomFull"]>> \notin emitted'

RoomJoinedMsg(s, occ) == <<s, [type |-> "roomJoined", occupancy |-> occ]>>

UserJoinedMsg(d, s, occ) == <<d, [type |-> "userJoined", userId |-> s, occupancy |-> occ]>>

JoinRaisesByOne ==
    \A s \in Conn, r \in Rooms :
        JoinAccepted(s, r) =>
            LET occ == Occupancy(rooms', r)
            IN  /\ occ = Occupancy(rooms, r) + 1
                /\ occ \in 1..MaxUsers
                /\ emitted' = {RoomJoinedMsg(s, occ)}
                                \cup {UserJoinedMsg(d, s, occ) : d \in Users(rooms, r)}

\* C15 (as claimed): every accepted join-room, one by a connection that is already a
\* member included, raises the room's occupancy by exactly one, to 1 or 2; the joiner
\* is sent roomJoined with the new occupancy and, at occupancy 2, the pre-existing
\* occupant is sent userJoined with occupancy 2; nobody else is notified.
C15_Claimed == [][JoinRaisesByOne]_vars


\* The step is the relay handling leave-room(r) or the disconnect of s, and it takes
\* s out of the members of r.
OccupantLeaves(s, r) ==
    /\ lastEvt' \in {[type |-> "leave-room", from |-> s, room |-> r],
                     [type |-> "disconnect", from |-> s]}
    /\ s \in Users(rooms, r)
    /\ s \notin Users(rooms', r)

UserLeftMsg(d, s, occ) == <<d, [type |-> "userLeft", userId |-> s, occupancy |-> occ]>>

EntryWhileOccupied ==
    \A r \in DOMAIN rooms :
        rooms[r].occupancy > 0 /\ rooms[r].occupancy = Cardinality(rooms[r].users)

LeaveNotifiesRemaining ==
    \A s \in Conn, r \in Rooms :
        OccupantLeaves(s, r) =>
            LET occ == Occupancy(rooms, r) - 1
            IN  IF occ = 0
                THEN r \notin DOMAIN rooms' /\ emitted' = {}
                ELSE /\ r \in DOMAIN rooms'
                     /\ rooms'[r] = [users |-> Users(rooms, r) \ {s}, occupancy |-> occ]
                     /\ emitted' = {UserLeftMsg(d, s, occ) : d \in Users(rooms', r)}

\* C16 (as claimed): a room has an entry exactly while its occupancy is above 0; when
\* an occupant leaves or disconnects and the occupancy becomes 1 the entry is kept and
\* userLeft with occupancy 1 is sent to the remaining occupant and to nobody else;
\* when it becomes 0 the entry is removed and nothing is sent.
C16_Claimed == []EntryWhileOccupied /\ [][LeaveNotifiesRemaining]_vars

\* ======================================================= properties: media

\* C11 (as claimed): within one cipher engine holding a key, no two encryptFrame calls
\* produce the same 12-byte nonce, whatever the counter values (2^32 and beyond
\* included) and however the calls of the audio and video tracks interleave.
C11_Claimed ==
    \A a \in issued, b \in issued :
        (a.key = b.key /\ a.n # b.n) => a.iv # b.iv

\* The nonce of the 64-bit counter n as two big-endian 32-bit halves and four zero bytes.
TwoHalves(n) == SubSeq(n, 1, 4) \o SubSeq(n, 5, 8) \o <<0, 0, 0, 0>>

\* A keyed encryptFrame call made at counter n prefixes its output with TwoHalves(n)
\* and leaves the counter at n + 1.
NonceIsTwoHalves ==
    \A x \in issued' \ issued :
        /\ x.iv = TwoHalves(x.n)
        /\ \E e \in Engines :
              /\ engine[e].ivCounter = x.n
              /\ engine'[e].ivCounter = IncAt(x.n, Len(x.n))

\* Chunks in a queue, as a set.
ChunksOf(q) == {q[i] : i \in 1..Len(q)}

\* C17 (as claimed): for an inbound frame of at least 12 bytes that fails
\* authenticated decryption (ciphertext or nonce modified, or sealed under the key of
\* another secret) decryptFrame returns an empty result, and the receive pipeline
\* produces no output for that frame.
C17_Claimed ==
    \A t \in Tracks :
        /\ \A ch \in ChunksOf(rxBusy[t]) \cup ChunksOf(rxOut[t]) :
               ch.verdict = "failed" => ch.data = Raw(<< >>)
        /\ \A ch \in ChunksOf(rxOut[t]) : ch.verdict # "failed"

\* The frame was sealed and opened under keys derived from one secret and reached the
\* receiver unmodified.
SameSecretIntact(ch) ==
    /\ ch.wire = "intact"
    /\ ch.encKey # NoKey
    /\ ch.decKey = ch.encKey

\* C18: a frame encrypted by one engine and decrypted by another engine that derived
\* its key from the same secret comes out as exactly the payload that went in, the
\* empty payload and payloads shorter than 12 bytes included, whatever the counters.
C18_RoundTrip ==
    \A t \in Tracks :
        \A ch \in ChunksOf(rxBusy[t]) \cup ChunksOf(rxOut[t]) :
            SameSecretIntact(ch) => ch.verdict = "opened" /\ ch.data = Raw(ch.orig)

\* C18 witness: an empty and a one-byte payload made the round trip, sealed by an
\* engine whose counter was 2^32 - 1 and then 2^32.
C18_Witness ==
    /\ engine["tx"].ivCounter = After(Checkpoints[2], 2)
    /\ engine["rx"].cryptoKey = engine["tx"].cryptoKey
    /\ \E t \in Tracks, u \in Tracks :
          \E a \in ChunksOf(rxOut[t]), b \in ChunksOf(rxOut[u]) :
              /\ SameSecretIntact(a) /\ a.orig = << >> /\ a.data = Raw(<< >>)
              /\ SameSecretIntact(b) /\ b.orig = <<7>> /\ b.data = Raw(<<7>>)

\* The frames of track t from the most advanced to the latest captured.
Downstream(t) == rxOut[t] \o rxBusy[t] \o rxIn[t] \o txOut[t] \o txBusy[t] \o txIn[t]

\* C20: for each track the encrypt pipeline and the decrypt pipeline emit the frames
\* in the order they entered, although encryptFrame and decryptFrame suspend and the
\* frames of the other track pass through the same engine meanwhile.
C20_OrderPreserved ==
    \A t \in Tracks :
        \A i \in 1..Len(Downstream(t)) : Downstream(t)[i].id = i

\* C20 witness: two frames of a track came out of the decrypt pipeline while a frame
\* of the other track was suspended in the same engine's decryptFrame.
C20_Witness ==
    \E t \in Tracks, u \in Tracks :
        /\ t # u
        /\ Len(rxOut[t]) = 2
        /\ rxOut[t][1].verdict = "opened" /\ rxOut[t][2].verdict = "opened"
        /\ Len(rxBusy[u]) = 1

\* C19 (as claimed): the nonce of the encryptFrame call made at counter n has the high
\* 32 bits of n in bytes 0-3, the low 32 bits in bytes 4-7 and zero in bytes 8-11, and
\* the counter, which starts at 0, grows by one per keyed call.
C19_Claimed ==
    /\ [][NonceIsTwoHalves]_vars
    /\ [](\A e \in Engines : engine[e].cryptoKey = NoKey => engine[e].ivCounter = Zero64)


\* An engine is making a keyed encryptFrame call whose nonce no earlier call under
\* the same key has used.
SealsWithFreshNonce ==
    \A e \in Engines :
        (engine[e].cryptoKey # NoKey
         /\ engine'[e] = [engine[e] EXCEPT !.ivCounter = Increment(@)])
            => ~\E x \in issued :
                   x.key = engine[e].cryptoKey /\ x.iv = GenerateIV(engine[e].ivCounter).iv

\* C21 (as claimed): no key and nonce are used for two frames anywhere: across the
\* two parties of a call, who hold the same key, and across successive calls made
\* with the same PIN, each on a fresh engine, every encrypted frame's nonce differs
\* from that of every other frame encrypted under the key.
C21_Claimed == [][SealsWithFreshNonce]_vars


BothJoined == \A c \in Callers : status[c] # "idle"

\* The second arrival x has sent its offer and applied the answer; the first arrival
\* y has received the offer and sent the answer.
Negotiated ==
    \E x \in Callers : \E y \in Callers \ {x} :
        /\ raisedBy[PinA] = x
        /\ pcRef[x].open /\ pcRef[x].offered /\ pcRef[x].remote
        /\ pcRef[y].open /\ pcRef[y].remote /\ pcRef[y].answered

\* A client without a connection dispatches an ice-candidate: nothing of the client
\* changes but the message being consumed.
CandidateDropped ==
    \A c \in Conn :
        (/\ toClient[c] # << >>
         /\ Head(toClient[c]).type = "ice-candidate"
         /\ ~pcRef[c].open
         /\ toClient'[c] = Tail(toClient[c]))
            => UNCHANGED <<status, currentRoomRef, localStream, pcRef, replaced, cryptoKey,
                           registered, tasks, toRelay>>

\* C22: when two clients with the same valid secret both join and stay, and the relay
\* and the handlers run fairly, eventually the second arrival has sent an offer, the
\* first has received it and sent an answer, and the second has applied that answer;
\* an ice-candidate reaching a client that has no connection is dropped and changes
\* nothing.
C22_NegotiationCompletes == (BothJoined ~> Negotiated) /\ [][CandidateDropped]_vars

\* C22 witness: both clients joined and the offer/answer exchange is complete, after a
\* client that had no connection yet was sent an ice-candidate and dropped it.
C22_Witness == BothJoined /\ Negotiated /\ dropped

====
